---- MODULE Spec2Model ----
(***************************************************************************)
(* The ST7789 controller models of mipidsi (src/models/st7789.rs):         *)
(*   ST7789             blocking model, streams pixels to the bus          *)
(*   ST7789Framebuffer  asynchronous model, owns a 240*135 u16 framebuffer *)
(* Every model talks to its own display interface (Dcs / AsyncDcs); what   *)
(* the interface, the delay provider and the reset line are asked to do is *)
(* recorded, in call order, in the model's trace.                          *)
(***************************************************************************)
EXTENDS Integers, Sequences, FiniteSets, TLC

VARIABLES
    options,        \* the ModelOptions the caller passes to init
    options_src,    \* who built them: "unset", "caller" or a default_options
    rst,            \* TRUE: rst is Some(pin), FALSE: rst is None
    failAt,         \* the display interface fails its failAt-th call (0: never)
    pinFailAt,      \* the reset pin fails its pinFailAt-th call (0: never)
    s_pc,           \* ST7789: position in the running operation
    s_madctl,       \* ST7789::init: the local madctl
    s_trace,        \* ST7789: calls seen by dcs, delay and rst
    s_ret,          \* ST7789: what the last operation returned
    s_colors,       \* ST7789::write_pixels: the colors argument
    f_pc,           \* ST7789Framebuffer: position in the running operation
    f_madctl,       \* ST7789Framebuffer::init: the local madctl
    f_trace,        \* ST7789Framebuffer: calls seen by dcs, delay and rst
    f_ret,          \* ST7789Framebuffer: what the last operation returned
    f_outstanding,  \* awaited calls of the task that have not completed yet
    f_opres,        \* outcome of the awaited call: "ok" or "bus"
    framebuffer,    \* ST7789Framebuffer.framebuffer: [u16; 240 * 135]
    overflow_checks,\* build profile: TRUE panics on integer overflow, FALSE wraps
    in_place,       \* the bus converts a U16BE slice to big-endian where it lies
    panicked,       \* the program has panicked
    last,           \* the last framebuffer-model call: operation and arguments
    nops,           \* number of framebuffer-model calls made
    others,         \* steps other tasks took while the init task was suspended
    flushes         \* the flush calls since the last clear or write_pixel

vars == << options, options_src, rst, failAt, pinFailAt,
           s_pc, s_madctl, s_trace, s_ret, s_colors,
           f_pc, f_madctl, f_trace, f_ret, f_outstanding, f_opres,
           framebuffer, overflow_checks, in_place, panicked, last, nops, others,
           flushes >>

initInputs == << options, options_src, rst, failAt, pinFailAt >>
sVars == << s_pc, s_madctl, s_trace, s_ret, s_colors >>
fVars == << f_pc, f_madctl, f_trace, f_ret, f_outstanding, f_opres >>
fbVars == << framebuffer, overflow_checks, in_place, panicked, last, nops,
            flushes >>

(***************************************************************************)
(* Program constants.                                                      *)
(***************************************************************************)
FbLen == 240 * 135         \* length of ST7789Framebuffer.framebuffer
U16 == 65536               \* x, y and the colors are u16

(***************************************************************************)
(* Arrays.  An array of len slots is written as the value that its slots   *)
(* hold unless stated otherwise (fill) and the slots that hold another     *)
(* value (over, from slot index to value); two arrays with the same slots  *)
(* are the same record.                                                    *)
(***************************************************************************)
\* [v; len]
Filled(len, v) == [len |-> len, fill |-> v, over |-> << >>]

\* a[i], for 0 <= i < a.len
Slot(a, i) == IF i \in DOMAIN a.over THEN a.over[i] ELSE a.fill

\* a with a[i] = v
Store(a, i, v) ==
    LET D == IF v = a.fill THEN DOMAIN a.over \ {i} ELSE DOMAIN a.over \cup {i}
    IN [a EXCEPT !.over = [j \in D |-> IF j = i THEN v ELSE a.over[j]]]

\* slice::get_mut(i) is Some
InBounds(a, i) == i < a.len

(***************************************************************************)
(* Bounds of the model.                                                    *)
(***************************************************************************)
MaxLen == 3         \* longest colors argument of write_pixels
MaxOps == 3         \* framebuffer-model calls in one behaviour
MaxOthers == 2      \* steps of other tasks in one behaviour

(***************************************************************************)
(* ModelOptions and the commands built from it (crate::options, crate::dcs).*)
(***************************************************************************)
Orientation(mv, mx, my) == [mv |-> mv, mx |-> mx, my |-> my]

ModelOptions_with_sizes(display_size, framebuffer_size) ==
    [ display_size |-> display_size,
      framebuffer_size |-> framebuffer_size,
      invert_colors |-> "Normal",
      orientation |-> Orientation(FALSE, FALSE, FALSE) ]

set_invert_colors(o, inv) == [o EXCEPT !.invert_colors = inv]

\* the trace entries: one record per call; a send_data call carries the
\* DataFormat it was given, the format's name and its 16-bit words
Cmd(name, arg) == [k |-> "cmd", op |-> name, arg |-> arg]
Data(fmt, words) == [k |-> "data", op |-> fmt, arg |-> words]
Delay(us) == [k |-> "delay", op |-> "delay_us", arg |-> << us >>]
Pin(level) == [k |-> "pin", op |-> level, arg |-> << >>]

\* the address-mode byte: MY, MX and MV are bits 7, 6 and 5
SetAddressMode_from(o) ==
      (IF o.orientation.my THEN 128 ELSE 0)
    + (IF o.orientation.mx THEN 64 ELSE 0)
    + (IF o.orientation.mv THEN 32 ELSE 0)

\* top fixed area, scroll area height, bottom fixed area; the height is that
\* of the framebuffer size in the options ("based on framebuffer size")
SetScrollArea_from(o) == Cmd("SetScrollArea", << 0, o.framebuffer_size[2], 0 >>)

SetInvertMode(inv) == Cmd("SetInvertMode", << IF inv = "Inverted" THEN 1 ELSE 0 >>)

BitsPerPixel_from_rgb_color == 16

SetPixelFormat_new(bpp) == Cmd("SetPixelFormat", << bpp >>)

IsBusCall(e) == e.k \in {"cmd", "data"}
IsPinCall(e) == e.k = "pin"
IsCmd(e) == e.k = "cmd"

BusCalls(t) == SelectSeq(t, IsBusCall)
PinCalls(t) == SelectSeq(t, IsPinCall)
Commands(t) == SelectSeq(t, IsCmd)

\* the display interface fails the call that was just appended to t
BusFails(t) == failAt # 0 /\ Len(BusCalls(t)) = failAt

NoRet == [tag |-> "none", madctl |-> 0, kind |-> "none"]
Ok(madctl) == [tag |-> "Ok", madctl |-> madctl, kind |-> "none"]
OkUnit == [tag |-> "Ok", madctl |-> 0, kind |-> "none"]
Err(kind) == [tag |-> "Err", madctl |-> 0, kind |-> kind]

\* Model::hard_reset: pull the line low, hold, release; either pin call can fail
hard_reset(t) ==
    IF pinFailAt = 1
    THEN [trace |-> t \o << Pin("set_low") >>, res |-> "pin"]
    ELSE IF pinFailAt = 2
    THEN [trace |-> t \o << Pin("set_low"), Delay(10), Pin("set_high") >>, res |-> "pin"]
    ELSE [trace |-> t \o << Pin("set_low"), Delay(10), Pin("set_high") >>, res |-> "ok"]

(***************************************************************************)
(* default_options                                                         *)
(***************************************************************************)
\* as ST7789_default_options, with the inversion flag set the other way
ST7789_default_options_inverted ==
    LET o == ModelOptions_with_sizes(<< 240, 320 >>, << 240, 320 >>)
    IN set_invert_colors(o, "Inverted")

ST7789_default_options ==
    LET o == ModelOptions_with_sizes(<< 240, 320 >>, << 240, 320 >>)
    IN set_invert_colors(o, "Normal")

ST7789Framebuffer_default_options ==
    LET o == ModelOptions_with_sizes(<< 240, 320 >>, << 240, 320 >>)
    IN set_invert_colors(o, "Normal")

(***************************************************************************)
(* The caller: the options, the reset line and the bus it hands to init.   *)
(***************************************************************************)
Orientations ==
    { Orientation(FALSE, FALSE, FALSE), Orientation(FALSE, TRUE, FALSE),
      Orientation(TRUE, FALSE, FALSE), Orientation(TRUE, FALSE, TRUE) }

Sizes == { << 240, 320 >>, << 240, 135 >> }

OptionSet ==
    { [ display_size |-> d, framebuffer_size |-> f,
        invert_colors |-> i, orientation |-> o ] :
        d \in Sizes, f \in Sizes, i \in {"Normal", "Inverted"}, o \in Orientations }

Caller_options ==
    /\ options_src = "unset"
    /\ \E o \in OptionSet : options' = o
    /\ options_src' = "caller"
    /\ UNCHANGED << others, rst, failAt, pinFailAt, sVars, fVars, fbVars >>

Caller_ST7789_default_options ==
    /\ options_src = "unset"
    /\ options' = ST7789_default_options
    /\ options_src' = "ST7789::default_options"
    /\ UNCHANGED << others, rst, failAt, pinFailAt, sVars, fVars, fbVars >>

Caller_ST7789Framebuffer_default_options ==
    /\ options_src = "unset"
    /\ options' = ST7789Framebuffer_default_options
    /\ options_src' = "ST7789Framebuffer::default_options"
    /\ UNCHANGED << others, rst, failAt, pinFailAt, sVars, fVars, fbVars >>

(***************************************************************************)
(* ST7789::init (blocking): every call runs to completion in its step.     *)
(***************************************************************************)
\* as S_write_command, without the ? : the error is dropped
S_write_command_ignore(cmd, next) ==
    /\ s_trace' = Append(s_trace, cmd)
    /\ s_pc' = next
    /\ s_ret' = s_ret

\* dcs.write_command(cmd)?  then continue at next
S_write_command(cmd, next) ==
    LET t == Append(s_trace, cmd) IN
    /\ s_trace' = t
    /\ IF BusFails(t)
       THEN s_pc' = "done" /\ s_ret' = Err("DisplayError")
       ELSE s_pc' = next /\ s_ret' = s_ret

\* delay.delay_us(us)  then continue at next
S_delay_us(us, next) ==
    /\ s_trace' = Append(s_trace, Delay(us))
    /\ s_pc' = next
    /\ s_ret' = s_ret

S_init_frame == UNCHANGED << others, s_madctl, s_colors, initInputs, fVars, fbVars >>

ST7789_init_madctl ==
    /\ s_pc = "idle"
    /\ options_src # "unset"
    /\ s_madctl' = SetAddressMode_from(options)
    /\ s_pc' = "reset"
    /\ UNCHANGED << others, s_trace, s_ret, s_colors, initInputs, fVars, fbVars >>


\* as ST7789_init_hard_reset, reporting a failed reset line as a bus error
ST7789_init_hard_reset_asBusError ==
    /\ s_pc = "reset"
    /\ rst
    /\ LET r == hard_reset(s_trace) IN
       /\ s_trace' = r.trace
       /\ IF r.res = "pin"
          THEN s_pc' = "done" /\ s_ret' = Err("DisplayError")
          ELSE s_pc' = "delay_reset" /\ s_ret' = s_ret
    /\ UNCHANGED << others, s_madctl, s_colors, initInputs, fVars, fbVars >>

ST7789_init_hard_reset ==
    /\ s_pc = "reset"
    /\ rst
    /\ LET r == hard_reset(s_trace) IN
       /\ s_trace' = r.trace
       /\ IF r.res = "pin"
          THEN s_pc' = "done" /\ s_ret' = Err("Pin")
          ELSE s_pc' = "delay_reset" /\ s_ret' = s_ret
    /\ UNCHANGED << others, s_madctl, s_colors, initInputs, fVars, fbVars >>

\* as ST7789_init_SoftReset, whether or not there is a reset line
ST7789_init_SoftReset_always ==
    /\ s_pc = "reset"
    /\ S_write_command(Cmd("SoftReset", << >>), "delay_reset")
    /\ S_init_frame

ST7789_init_SoftReset ==
    /\ s_pc = "reset"
    /\ ~rst
    /\ S_write_command(Cmd("SoftReset", << >>), "delay_reset")
    /\ S_init_frame

ST7789_init_delay_reset ==
    /\ s_pc = "delay_reset"
    /\ S_delay_us(150000, "exit_sleep")
    /\ S_init_frame

ST7789_init_ExitSleepMode ==
    /\ s_pc = "exit_sleep"
    /\ S_write_command(Cmd("ExitSleepMode", << >>), "delay_exit_sleep")
    /\ S_init_frame

ST7789_init_delay_exit_sleep ==
    /\ s_pc = "delay_exit_sleep"
    /\ S_delay_us(10000, "scroll_area")
    /\ S_init_frame

ST7789_init_SetScrollArea ==
    /\ s_pc = "scroll_area"
    /\ S_write_command(SetScrollArea_from(options), "address_mode")
    /\ S_init_frame

ST7789_init_SetAddressMode ==
    /\ s_pc = "address_mode"
    /\ S_write_command(Cmd("SetAddressMode", << s_madctl >>), "invert_mode")
    /\ S_init_frame

ST7789_init_SetInvertMode ==
    /\ s_pc = "invert_mode"
    /\ S_write_command(SetInvertMode(options.invert_colors), "pixel_format")
    /\ S_init_frame

ST7789_init_SetPixelFormat ==
    /\ s_pc = "pixel_format"
    /\ S_write_command(SetPixelFormat_new(BitsPerPixel_from_rgb_color),
                       "delay_pixel_format")
    /\ S_init_frame

ST7789_init_delay_pixel_format ==
    /\ s_pc = "delay_pixel_format"
    /\ S_delay_us(10000, "normal_mode")
    /\ S_init_frame

ST7789_init_EnterNormalMode ==
    /\ s_pc = "normal_mode"
    /\ S_write_command(Cmd("EnterNormalMode", << >>), "delay_normal_mode")
    /\ S_init_frame

ST7789_init_delay_normal_mode ==
    /\ s_pc = "delay_normal_mode"
    /\ S_delay_us(10000, "display_on")
    /\ S_init_frame

ST7789_init_SetDisplayOn ==
    /\ s_pc = "display_on"
    /\ S_write_command(Cmd("SetDisplayOn", << >>), "delay_display_on")
    /\ S_init_frame


\* as ST7789_init_delay_display_on, waiting as long as after the other commands
ST7789_init_delay_display_on_short ==
    /\ s_pc = "delay_display_on"
    /\ S_delay_us(10000, "return")
    /\ S_init_frame

ST7789_init_delay_display_on ==
    /\ s_pc = "delay_display_on"
    /\ S_delay_us(120000, "return")
    /\ S_init_frame

\* as ST7789_init_return, returning SetAddressMode::default()
ST7789_init_return_default ==
    /\ s_pc = "return"
    /\ s_ret' = Ok(0)
    /\ s_pc' = "done"
    /\ UNCHANGED << others, s_madctl, s_trace, s_colors, initInputs, fVars, fbVars >>

ST7789_init_return ==
    /\ s_pc = "return"
    /\ s_ret' = Ok(s_madctl)
    /\ s_pc' = "done"
    /\ UNCHANGED << others, s_madctl, s_trace, s_colors, initInputs, fVars, fbVars >>

ST7789_init ==
    \/ ST7789_init_madctl
    \/ ST7789_init_hard_reset
    \/ ST7789_init_SoftReset
    \/ ST7789_init_delay_reset
    \/ ST7789_init_ExitSleepMode
    \/ ST7789_init_delay_exit_sleep
    \/ ST7789_init_SetScrollArea
    \/ ST7789_init_SetAddressMode
    \/ ST7789_init_SetInvertMode
    \/ ST7789_init_SetPixelFormat
    \/ ST7789_init_delay_pixel_format
    \/ ST7789_init_EnterNormalMode
    \/ ST7789_init_delay_normal_mode
    \/ ST7789_init_SetDisplayOn
    \/ ST7789_init_delay_display_on
    \/ ST7789_init_return

(***************************************************************************)
(* ST7789Framebuffer::init (async): a call is issued, the task is          *)
(* suspended at the .await, and it goes on once the call has completed.    *)
(***************************************************************************)
\* the task is not suspended at an .await
F_running == f_outstanding = 0 /\ ~panicked

\* as F_issue, not waiting for the call before
F_issue_early(t, res, next) ==
    /\ ~panicked
    /\ f_trace' = t
    /\ f_opres' = res
    /\ f_outstanding' = f_outstanding + 1
    /\ f_pc' = next

\* issue the call ev, whose outcome will be res, and suspend before next
F_issue(t, res, next) ==
    /\ F_running
    /\ f_trace' = t
    /\ f_opres' = res
    /\ f_outstanding' = f_outstanding + 1
    /\ f_pc' = next

\* dcs.write_command(cmd).await?
F_write_command(cmd, next) ==
    LET t == Append(f_trace, cmd) IN
    F_issue(t, IF BusFails(t) THEN "bus" ELSE "ok", next)

\* delay.delay_us(us).await
F_delay_us(us, next) == F_issue(Append(f_trace, Delay(us)), "ok", next)


\* the awaited call completes; the ? after it returns its error
ST7789Framebuffer_resume ==
    /\ f_outstanding > 0
    /\ f_outstanding' = f_outstanding - 1
    /\ f_opres' = "ok"
    /\ IF f_opres = "bus"
       THEN f_pc' = "done" /\ f_ret' = Err("DisplayError")
       ELSE f_pc' = f_pc /\ f_ret' = f_ret
    /\ UNCHANGED << others, f_madctl, f_trace, initInputs, sVars, fbVars >>


\* the executor runs another task while this one is suspended at an .await;
\* dcs, delay, rst and the model are borrowed by the suspended call, so the
\* other task reaches none of them
OtherTask ==
    /\ f_outstanding > 0
    /\ others < MaxOthers
    /\ others' = others + 1
    /\ UNCHANGED << initInputs, sVars, fVars, fbVars >>

F_init_frame == UNCHANGED << others, f_madctl, f_ret, initInputs, sVars, fbVars >>

ST7789Framebuffer_init_madctl ==
    /\ f_pc = "idle"
    /\ s_pc = "done"
    /\ F_running
    /\ f_madctl' = SetAddressMode_from(options)
    /\ f_pc' = "reset"
    /\ UNCHANGED << others, f_trace, f_ret, f_outstanding, f_opres,
                    initInputs, sVars, fbVars >>

\* rst.set_low() or rst.set_high() of hard_reset: the call is made and is
\* over in the same step, and its error is returned at once
F_pin_call(level, fails, next) ==
    /\ F_running
    /\ f_trace' = Append(f_trace, Pin(level))
    /\ IF fails
       THEN f_pc' = "done" /\ f_ret' = Err("Pin")
       ELSE f_pc' = next /\ f_ret' = f_ret
    /\ UNCHANGED << others, f_madctl, f_outstanding, f_opres,
                    initInputs, sVars, fbVars >>

\* self.hard_reset(rst, delay).await? : the line is pulled low
ST7789Framebuffer_init_hard_reset_set_low ==
    /\ f_pc = "reset"
    /\ rst
    /\ F_pin_call("set_low", pinFailAt = 1, "reset_hold")

\* the hold delay of hard_reset is awaited: the task is suspended here
ST7789Framebuffer_init_hard_reset_delay ==
    /\ f_pc = "reset_hold"
    /\ F_delay_us(10, "reset_release")
    /\ F_init_frame

\* the line is released
ST7789Framebuffer_init_hard_reset_set_high ==
    /\ f_pc = "reset_release"
    /\ F_pin_call("set_high", pinFailAt = 2, "delay_reset")

ST7789Framebuffer_init_hard_reset ==
    \/ ST7789Framebuffer_init_hard_reset_set_low
    \/ ST7789Framebuffer_init_hard_reset_delay
    \/ ST7789Framebuffer_init_hard_reset_set_high

ST7789Framebuffer_init_SoftReset ==
    /\ f_pc = "reset"
    /\ ~rst
    /\ F_write_command(Cmd("SoftReset", << >>), "delay_reset")
    /\ F_init_frame

ST7789Framebuffer_init_delay_reset ==
    /\ f_pc = "delay_reset"
    /\ F_delay_us(150000, "exit_sleep")
    /\ F_init_frame

ST7789Framebuffer_init_ExitSleepMode ==
    /\ f_pc = "exit_sleep"
    /\ F_write_command(Cmd("ExitSleepMode", << >>), "delay_exit_sleep")
    /\ F_init_frame


\* as ST7789Framebuffer_init_delay_exit_sleep, waiting as long as after the reset
ST7789Framebuffer_init_delay_exit_sleep_long ==
    /\ f_pc = "delay_exit_sleep"
    /\ F_delay_us(150000, "scroll_area")
    /\ F_init_frame

ST7789Framebuffer_init_delay_exit_sleep ==
    /\ f_pc = "delay_exit_sleep"
    /\ F_delay_us(10000, "scroll_area")
    /\ F_init_frame

ST7789Framebuffer_init_SetScrollArea ==
    /\ f_pc = "scroll_area"
    /\ F_write_command(SetScrollArea_from(options), "address_mode")
    /\ F_init_frame

ST7789Framebuffer_init_SetAddressMode ==
    /\ f_pc = "address_mode"
    /\ F_write_command(Cmd("SetAddressMode", << f_madctl >>), "invert_mode")
    /\ F_init_frame

\* as ST7789Framebuffer_init_SetInvertMode, sent only to invert the colors
ST7789Framebuffer_init_SetInvertMode_ifInverted ==
    /\ f_pc = "invert_mode"
    /\ IF options.invert_colors = "Inverted"
       THEN F_write_command(SetInvertMode(options.invert_colors), "pixel_format")
       ELSE /\ F_running
            /\ f_pc' = "pixel_format"
            /\ UNCHANGED << others, f_trace, f_outstanding, f_opres >>
    /\ F_init_frame

ST7789Framebuffer_init_SetInvertMode ==
    /\ f_pc = "invert_mode"
    /\ F_write_command(SetInvertMode(options.invert_colors), "pixel_format")
    /\ F_init_frame

ST7789Framebuffer_init_SetPixelFormat ==
    /\ f_pc = "pixel_format"
    /\ F_write_command(SetPixelFormat_new(BitsPerPixel_from_rgb_color),
                       "delay_pixel_format")
    /\ F_init_frame

ST7789Framebuffer_init_delay_pixel_format ==
    /\ f_pc = "delay_pixel_format"
    /\ F_delay_us(10000, "normal_mode")
    /\ F_init_frame

ST7789Framebuffer_init_EnterNormalMode ==
    /\ f_pc = "normal_mode"
    /\ F_write_command(Cmd("EnterNormalMode", << >>), "delay_normal_mode")
    /\ F_init_frame

ST7789Framebuffer_init_delay_normal_mode ==
    /\ f_pc = "delay_normal_mode"
    /\ F_delay_us(10000, "display_on")
    /\ F_init_frame

ST7789Framebuffer_init_SetDisplayOn ==
    /\ f_pc = "display_on"
    /\ F_write_command(Cmd("SetDisplayOn", << >>), "delay_display_on")
    /\ F_init_frame

ST7789Framebuffer_init_delay_display_on ==
    /\ f_pc = "delay_display_on"
    /\ F_delay_us(120000, "return")
    /\ F_init_frame

ST7789Framebuffer_init_return ==
    /\ f_pc = "return"
    /\ F_running
    /\ f_ret' = Ok(f_madctl)
    /\ f_pc' = "done"
    /\ UNCHANGED << others, f_madctl, f_trace, f_outstanding, f_opres,
                    initInputs, sVars, fbVars >>

ST7789Framebuffer_init ==
    \/ ST7789Framebuffer_init_madctl
    \/ ST7789Framebuffer_init_hard_reset
    \/ ST7789Framebuffer_init_SoftReset
    \/ ST7789Framebuffer_init_delay_reset
    \/ ST7789Framebuffer_init_ExitSleepMode
    \/ ST7789Framebuffer_init_delay_exit_sleep
    \/ ST7789Framebuffer_init_SetScrollArea
    \/ ST7789Framebuffer_init_SetAddressMode
    \/ ST7789Framebuffer_init_SetInvertMode
    \/ ST7789Framebuffer_init_SetPixelFormat
    \/ ST7789Framebuffer_init_delay_pixel_format
    \/ ST7789Framebuffer_init_EnterNormalMode
    \/ ST7789Framebuffer_init_delay_normal_mode
    \/ ST7789Framebuffer_init_SetDisplayOn
    \/ ST7789Framebuffer_init_delay_display_on
    \/ ST7789Framebuffer_init_return

(***************************************************************************)
(* Initialisation: the caller builds the options, runs ST7789::init on one *)
(* display interface and then ST7789Framebuffer::init on another, with the *)
(* same options, the same kind of reset line and the same failing call.    *)
(***************************************************************************)
NoCall == [op |-> "none", x |-> 0, y |-> 0, color |-> 0]

Quiet ==
    /\ s_pc = "idle" /\ s_madctl = 0 /\ s_trace = << >> /\ s_ret = NoRet
    /\ s_colors = << >>
    /\ f_pc = "idle" /\ f_madctl = 0 /\ f_trace = << >> /\ f_ret = NoRet
    /\ f_outstanding = 0 /\ f_opres = "ok"
    /\ panicked = FALSE /\ last = NoCall /\ nops = 0
    /\ others = 0
    /\ flushes = << >>

InitInit ==
    /\ Quiet
    /\ options = ModelOptions_with_sizes(<< 0, 0 >>, << 0, 0 >>)
    /\ options_src = "unset"
    /\ rst \in BOOLEAN
    /\ failAt \in 0 .. 8
    /\ pinFailAt \in 0 .. 2
    /\ (~rst => pinFailAt = 0)
    /\ framebuffer = Filled(FbLen, 0)
    /\ overflow_checks = FALSE
    /\ in_place = FALSE

NextInit ==
    \/ Caller_options
    \/ Caller_ST7789_default_options
    \/ Caller_ST7789Framebuffer_default_options
    \/ ST7789_init
    \/ ST7789Framebuffer_init
    \/ ST7789Framebuffer_resume
    \/ OtherTask

SpecInit == InitInit /\ [][NextInit]_vars

(***************************************************************************)
(* Colors and their wire encoding.                                         *)
(***************************************************************************)
Rgb565(r, g, b) == [r |-> r, g |-> g, b |-> b]

\* Rgb565::into_storage: rrrrrggg gggbbbbb
into_storage(c) == c.r * 2048 + c.g * 32 + c.b

\* a 16-bit word on the wire: u16::to_be_bytes / u16::to_le_bytes
to_be_bytes(w) == << w \div 256, w % 256 >>
to_le_bytes(w) == << w % 256, w \div 256 >>

\* the words of a send_data call, a slice or an iterator: their number, and
\* the i-th of them (from 0)
NumWords(e) == IF e.op = "U16BE" THEN e.arg.len ELSE Len(e.arg)
WordAt(e, i) == IF e.op = "U16BE" THEN Slot(e.arg, i) ELSE e.arg[i + 1]

\* the bytes the display interface puts on the wire for a send_data call:
\* their number, and the j-th of them (from 1)
WireLen(e) == 2 * NumWords(e)
WireByte(e, j) ==
    LET w == WordAt(e, (j - 1) \div 2)
    IN IF e.op \in {"U16BE", "U16BEIter"}
       THEN to_be_bytes(w)[2 - (j % 2)]
       ELSE to_le_bytes(w)[2 - (j % 2)]

Map_into_storage(colors) == [ i \in 1 .. Len(colors) |-> into_storage(colors[i]) ]

Colors == { Rgb565(2, 17, 20), Rgb565(31, 0, 31), Rgb565(0, 0, 0) }

RECURSIVE SeqsUpTo(_, _)
SeqsUpTo(S, n) ==
    IF n = 0 THEN { << >> }
    ELSE LET shorter == SeqsUpTo(S, n - 1)
         IN shorter \cup { Append(q, e) : q \in { t \in shorter : Len(t) = n - 1 }, e \in S }

(***************************************************************************)
(* ST7789::write_pixels                                                    *)
(***************************************************************************)
S_pixels_frame == UNCHANGED << others, s_madctl, initInputs, fVars, fbVars >>

ST7789_write_pixels_WriteMemoryStart ==
    /\ s_pc = "idle"
    /\ \E colors \in SeqsUpTo(Colors, MaxLen) : s_colors' = colors
    /\ S_write_command(Cmd("WriteMemoryStart", << >>), "send_data")
    /\ S_pixels_frame

\* as ST7789_write_pixels_send_data, in the little-endian format
ST7789_write_pixels_send_data_LE ==
    /\ s_pc = "send_data"
    /\ LET iter == Map_into_storage(s_colors)
           buf == Data("U16LEIter", iter)
       IN S_write_command(buf, "return")
    /\ s_colors' = s_colors
    /\ S_pixels_frame

ST7789_write_pixels_send_data ==
    /\ s_pc = "send_data"
    /\ LET iter == Map_into_storage(s_colors)
           buf == Data("U16BEIter", iter)
       IN S_write_command(buf, "return")
    /\ s_colors' = s_colors
    /\ S_pixels_frame

ST7789_write_pixels_return ==
    /\ s_pc = "return"
    /\ s_ret' = OkUnit
    /\ s_pc' = "done"
    /\ UNCHANGED << others, s_trace, s_colors >>
    /\ S_pixels_frame

ST7789_write_pixels ==
    \/ ST7789_write_pixels_WriteMemoryStart
    \/ ST7789_write_pixels_send_data
    \/ ST7789_write_pixels_return

InitPixels ==
    /\ Quiet
    /\ options = ST7789_default_options
    /\ options_src = "ST7789::default_options"
    /\ rst = FALSE
    /\ failAt \in 0 .. 2
    /\ pinFailAt = 0
    /\ framebuffer = Filled(FbLen, 0)
    /\ overflow_checks = FALSE
    /\ in_place = FALSE

NextPixels == ST7789_write_pixels

SpecPixels == InitPixels /\ [][NextPixels]_vars

(***************************************************************************)
(* ST7789Framebuffer: clear, write_pixel, flush                            *)
(***************************************************************************)
\* u16 arithmetic: the wrapped value and whether the exact value did not fit
mul_u16(a, b) == [val |-> (a * b) % U16, overflow |-> a * b >= U16]
add_u16(a, b) == [val |-> (a + b) % U16, overflow |-> a + b >= U16]

\* (x + y * 240) as usize
write_pixel_index(x, y) ==
    LET p == mul_u16(y, 240)
        q == add_u16(x, p.val)
    IN [val |-> q.val, overflow |-> p.overflow \/ q.overflow]

\* no framebuffer-model operation is running
F_idle == f_pc \in {"idle", "done"} /\ F_running /\ nops < MaxOps

F_sync_frame ==
    UNCHANGED << others, f_pc, f_madctl, f_trace, f_outstanding, f_opres,
                 overflow_checks, in_place, initInputs, sVars >>

ST7789Framebuffer_clear ==
    /\ F_idle
    /\ \E color \in Colors :
          /\ framebuffer' = Filled(FbLen, into_storage(color))
          /\ last' = [op |-> "clear", x |-> 0, y |-> 0, color |-> into_storage(color)]
    /\ f_ret' = OkUnit
    /\ nops' = nops + 1
    /\ panicked' = panicked
    /\ flushes' = << >>
    /\ F_sync_frame

\* the (x, y) arguments tried: the corners, the first index past the end, a
\* column past the width, and coordinates whose index does not fit in a u16
Points ==
    { << 0, 0 >>, << 239, 134 >>, << 0, 135 >>, << 240, 0 >>,
      << 0, 274 >>, << 65535, 1 >>, << 0, 410 >> }


\* as ST7789Framebuffer_write_pixel, sending the changed framebuffer at once
ST7789Framebuffer_write_pixel_through ==
    /\ F_idle
    /\ \E pt \in Points, colors \in Colors :
          LET x == pt[1]
              y == pt[2]
              idx == write_pixel_index(x, y)
          IN /\ last' = [op |-> "write_pixel", x |-> x, y |-> y,
                         color |-> into_storage(colors)]
             /\ IF (idx.overflow /\ overflow_checks) \/ ~InBounds(framebuffer, idx.val)
                THEN /\ panicked' = TRUE
                     /\ UNCHANGED << others, framebuffer, f_ret, f_trace >>
                ELSE /\ framebuffer' =
                            Store(framebuffer, idx.val, into_storage(colors))
                     /\ f_trace' = Append(f_trace, Data("U16BE", framebuffer'))
                     /\ f_ret' = OkUnit
                     /\ panicked' = panicked
    /\ nops' = nops + 1
    /\ flushes' = << >>
    /\ UNCHANGED << others, f_pc, f_madctl, f_outstanding, f_opres,
                    overflow_checks, in_place, initInputs, sVars >>

ST7789Framebuffer_write_pixel ==
    /\ F_idle
    /\ \E pt \in Points, colors \in Colors :
          LET x == pt[1]
              y == pt[2]
              idx == write_pixel_index(x, y)
          IN /\ last' = [op |-> "write_pixel", x |-> x, y |-> y,
                         color |-> into_storage(colors)]
             /\ IF (idx.overflow /\ overflow_checks) \/ ~InBounds(framebuffer, idx.val)
                THEN /\ panicked' = TRUE
                     /\ UNCHANGED << others, framebuffer, f_ret >>
                ELSE /\ framebuffer' =
                            Store(framebuffer, idx.val, into_storage(colors))
                     /\ f_ret' = OkUnit
                     /\ panicked' = panicked
    /\ nops' = nops + 1
    /\ flushes' = << >>
    /\ F_sync_frame

\* a flush call: the framebuffer when it was made, the payload it has sent,
\* and whether it has returned Ok
FlushCall(fb) == [read |-> fb, sent |-> << >>, ok |-> FALSE]

\* DataFormat::U16BE lends the slice mutably: a bus on a little-endian host
\* may swap the bytes of every word where it lies before it writes them
swap_bytes(w) == (w % 256) * 256 + w \div 256

to_be_in_place(a) ==
    [ len |-> a.len,
      fill |-> swap_bytes(a.fill),
      over |-> [i \in DOMAIN a.over |-> swap_bytes(a.over[i])] ]

F_flush_frame ==
    UNCHANGED << others, f_madctl, overflow_checks, in_place, panicked, last,
                 initInputs, sVars >>

ST7789Framebuffer_flush_WriteMemoryStart ==
    /\ F_idle
    /\ F_write_command(Cmd("WriteMemoryStart", << >>), "flush_send_data")
    /\ f_ret' = NoRet
    /\ nops' = nops + 1
    /\ flushes' = Append(flushes, FlushCall(framebuffer))
    /\ framebuffer' = framebuffer
    /\ F_flush_frame

ST7789Framebuffer_flush_send_data ==
    /\ f_pc = "flush_send_data"
    /\ F_write_command(Data("U16BE", framebuffer), "flush_return")
    /\ flushes' = [flushes EXCEPT ![Len(flushes)].sent =
                                      << Data("U16BE", framebuffer) >>]
    /\ framebuffer' = IF in_place THEN to_be_in_place(framebuffer)
                                  ELSE framebuffer
    /\ UNCHANGED << f_ret, nops >>
    /\ F_flush_frame

ST7789Framebuffer_flush_return ==
    /\ f_pc = "flush_return"
    /\ F_running
    /\ f_ret' = OkUnit
    /\ f_pc' = "done"
    /\ flushes' = [flushes EXCEPT ![Len(flushes)].ok = TRUE]
    /\ UNCHANGED << framebuffer, f_trace, f_outstanding, f_opres, nops >>
    /\ F_flush_frame

ST7789Framebuffer_flush ==
    \/ ST7789Framebuffer_flush_WriteMemoryStart
    \/ ST7789Framebuffer_flush_send_data
    \/ ST7789Framebuffer_flush_return

InitFb ==
    /\ Quiet
    /\ options = ST7789Framebuffer_default_options
    /\ options_src = "ST7789Framebuffer::default_options"
    /\ rst = FALSE
    /\ failAt \in 0 .. 4
    /\ pinFailAt = 0
    /\ framebuffer = Filled(FbLen, 0)
    /\ overflow_checks \in BOOLEAN
    /\ in_place \in BOOLEAN

NextFb ==
    \/ ST7789Framebuffer_clear
    \/ ST7789Framebuffer_write_pixel
    \/ ST7789Framebuffer_flush
    \/ ST7789Framebuffer_resume

SpecFb == InitFb /\ [][NextFb]_vars

(***************************************************************************)
(* Properties of init.                                                     *)
(***************************************************************************)
Last(t) == t[Len(t)]

\* the names of the calls in t that are not delays, in call order
StepsOf(t) ==
    LET calls == SelectSeq(t, LAMBDA e : e.k # "delay")
    IN [i \in 1 .. Len(calls) |-> calls[i].op]

CmdNames(t) == [i \in 1 .. Len(Commands(t)) |-> Commands(t)[i].op]

ConfigSteps ==
    << "ExitSleepMode", "SetScrollArea", "SetAddressMode", "SetInvertMode",
       "SetPixelFormat", "EnterNormalMode", "SetDisplayOn" >>

\* the commands of a complete init
InitCommands == IF rst THEN ConfigSteps ELSE << "SoftReset" >> \o ConfigSteps

\* the steps of a complete init: the reset, then the configuration commands
InitSteps == IF rst THEN << "set_low", "set_high" >> \o ConfigSteps ELSE InitCommands

InitOrderOk(pc, ret, t) ==
    (pc = "done" /\ ret.tag = "Ok") => StepsOf(t) = InitSteps

\* C1: a successful init, of either model and for every options value, has
\* made exactly the calls reset, ExitSleepMode, SetScrollArea, SetAddressMode,
\* SetInvertMode, SetPixelFormat, EnterNormalMode, SetDisplayOn, each once and
\* in this order
C1_InitOrder ==
    /\ InitOrderOk(s_pc, s_ret, s_trace)
    /\ InitOrderOk(f_pc, f_ret, f_trace)

C1_Witness ==
    /\ s_pc = "done" /\ s_ret.tag = "Ok"
    /\ f_pc = "done" /\ f_ret.tag = "Ok"
    /\ ~rst
    /\ options.invert_colors = "Inverted"
    /\ options.orientation = Orientation(TRUE, FALSE, TRUE)
    /\ Len(Commands(s_trace)) = 8 /\ Len(Commands(f_trace)) = 8

\* the bus has failed the call it was to fail, and the caller has seen it
FailedAt(pc, ret, t, completed) ==
    /\ Len(BusCalls(t)) <= failAt
    /\ (Len(BusCalls(t)) = failAt /\ completed) =>
          /\ pc = "done"
          /\ ret.tag = "Err"
          /\ CmdNames(t) = SubSeq(InitCommands, 1, failAt)

\* C2: when the bus fails the k-th command of init, init returns an error and
\* the bus has seen exactly the first k commands of the init sequence, never
\* a command after the failing one
C2_AbortOnBusFailure ==
    failAt \in 1 .. Len(InitCommands) =>
        /\ FailedAt(s_pc, s_ret, s_trace, TRUE)
        /\ FailedAt(f_pc, f_ret, f_trace, f_outstanding = 0)

C2_Witness ==
    /\ failAt = 4
    /\ s_pc = "done" /\ s_ret.tag = "Err" /\ Len(Commands(s_trace)) = 4
    /\ f_pc = "done" /\ f_ret.tag = "Err" /\ Len(Commands(f_trace)) = 4

AddressModeSent(t) == SelectSeq(t, LAMBDA e : e.k = "cmd" /\ e.op = "SetAddressMode")

ReturnsApplied(pc, ret, t) ==
    (pc = "done" /\ ret.tag = "Ok") =>
        /\ ret.madctl = SetAddressMode_from(options)
        /\ Len(AddressModeSent(t)) = 1
        /\ AddressModeSent(t)[1].arg = << ret.madctl >>

\* C3: a successful init returns the address mode computed from the options,
\* which is the value it sent to the bus in its SetAddressMode command
C3_ReturnsAppliedAddressMode ==
    /\ ReturnsApplied(s_pc, s_ret, s_trace)
    /\ ReturnsApplied(f_pc, f_ret, f_trace)

C3_Witness ==
    /\ s_pc = "done" /\ s_ret.tag = "Ok" /\ s_ret.madctl = 160
    /\ f_pc = "done" /\ f_ret.tag = "Ok" /\ f_ret.madctl = 160

\* C7: the default options of the framebuffer model have native and window
\* size 240 x 135, the size of its framebuffer
C7_FramebufferDefaults ==
    options_src = "ST7789Framebuffer::default_options" =>
        /\ options.display_size = << 240, 135 >>
        /\ options.framebuffer_size = << 240, 135 >>
        /\ options.display_size[1] * options.display_size[2] = FbLen

\* C8: the default options of the streaming model have native size 240 x 320,
\* window size 240 x 320 and color inversion Normal
C8_StreamingDefaults ==
    options_src = "ST7789::default_options" =>
        /\ options.display_size = << 240, 320 >>
        /\ options.framebuffer_size = << 240, 320 >>
        /\ options.invert_colors = "Normal"

C8_Witness ==
    /\ options_src = "ST7789::default_options"
    /\ s_pc = "done" /\ s_ret.tag = "Ok"

\* the position of the first call of t that satisfies Test, 0 when there is none
FirstPos(t, Test(_)) ==
    IF \E i \in 1 .. Len(t) : Test(t[i])
    THEN CHOOSE i \in 1 .. Len(t) : Test(t[i]) /\ \A j \in 1 .. i - 1 : ~Test(t[j])
    ELSE 0

IsSoftReset(e) == e.k = "cmd" /\ e.op = "SoftReset"
IsExitSleep(e) == e.k = "cmd" /\ e.op = "ExitSleepMode"
IsSetHigh(e) == e.k = "pin" /\ e.op = "set_high"

ResetChoiceOk(pc, t) ==
    /\ rst =>
          /\ FirstPos(t, IsSoftReset) = 0
          /\ (pc \notin {"idle", "reset"}) =>
                (t[1] = Pin("set_low") /\ FirstPos(t, IsBusCall) # 1)
          /\ FirstPos(t, IsExitSleep) # 0 =>
                /\ FirstPos(t, IsSetHigh) # 0
                /\ FirstPos(t, IsSetHigh) < FirstPos(t, IsExitSleep)
                /\ FirstPos(t, IsBusCall) = FirstPos(t, IsExitSleep)
    /\ ~rst =>
          /\ PinCalls(t) = << >>
          /\ (pc \notin {"idle", "reset"}) => IsSoftReset(t[1])
          /\ FirstPos(t, IsExitSleep) # 0 => FirstPos(t, IsExitSleep) > 1

\* C10: with a reset line init makes the hard reset and never sends SoftReset;
\* without one it sends SoftReset as its first call and toggles no line; in
\* both cases ExitSleepMode comes only after the reset step
C10_ResetChoice ==
    /\ ResetChoiceOk(s_pc, s_trace)
    /\ ResetChoiceOk(f_pc, f_trace)

C10_Witness ==
    /\ rst /\ pinFailAt = 0
    /\ s_pc = "done" /\ s_ret.tag = "Ok" /\ Len(PinCalls(s_trace)) = 2
    /\ f_pc = "done" /\ f_ret.tag = "Ok" /\ Len(PinCalls(f_trace)) = 2

(***************************************************************************)
(* Properties of the pixel paths.                                          *)
(***************************************************************************)
\* C4: a successful write_pixels of N colors has sent one WriteMemoryStart and
\* then one payload of 2N bytes, the high and the low byte of every color's
\* 16-bit value in input order, and nothing else
C4_WritePixelsPayload ==
    (s_pc = "done" /\ s_ret = OkUnit) =>
        /\ Len(s_trace) = 2
        /\ s_trace[1] = Cmd("WriteMemoryStart", << >>)
        /\ s_trace[2].k = "data"
        /\ LET N == Len(s_colors)
           IN /\ WireLen(s_trace[2]) = 2 * N
              /\ \A i \in 0 .. N - 1 :
                    /\ WireByte(s_trace[2], 2 * i + 1) = into_storage(s_colors[i + 1]) \div 256
                    /\ WireByte(s_trace[2], 2 * i + 2) = into_storage(s_colors[i + 1]) % 256

C4_Witness ==
    /\ s_pc = "done" /\ s_ret = OkUnit
    /\ s_colors = << Rgb565(2, 17, 20), Rgb565(31, 0, 31), Rgb565(2, 17, 20) >>
    /\ WireLen(s_trace[2]) = 6

\* C5: the payload of a flush has 240*135 slots of two bytes, whatever calls
\* of clear and write_pixel came before, and when the last of them was
\* clear(c), every slot is the encoding of c
C5_ClearThenFlush ==
    f_pc = "flush_return" =>
        /\ Last(f_trace).k = "data"
        /\ WireLen(Last(f_trace)) = 2 * (240 * 135)
        /\ last.op = "clear" =>
              \A i \in 0 .. 240 * 135 - 1 :
                 /\ WireByte(Last(f_trace), 2 * i + 1) = last.color \div 256
                 /\ WireByte(Last(f_trace), 2 * i + 2) = last.color % 256

\* what a flush of the framebuffer fb hands to send_data
FlushData(fb) == Data("U16BE", fb)

\* a step that is a call of write_pixel
WritePixelStep ==
    /\ nops' = nops + 1
    /\ last'.op = "write_pixel"
    /\ f_trace' = f_trace

\* C6: a write_pixel(x, y, c) that returns changes the flush payload only in
\* the two bytes at offset 2*(x + y*240), which then hold c, also when y*240
\* does not fit in 16 bits
C6_WritePixelFrame ==
    [][ (WritePixelStep /\ ~panicked') =>
            LET off == 2 * (last'.x + last'.y * 240)
                old == FlushData(framebuffer)
                new == FlushData(framebuffer')
            IN /\ off + 2 <= WireLen(new)
               /\ WireByte(new, off + 1) = last'.color \div 256
               /\ WireByte(new, off + 2) = last'.color % 256
               /\ \A j \in 1 .. WireLen(new) :
                     j \notin {off + 1, off + 2} => WireByte(new, j) = WireByte(old, j) ]_vars

\* C9: write_pixel(x, y, c) with x + y*240 at or beyond 240*135 is fatal: it
\* does not return and changes no slot, also when the sum does not fit in 16 bits
C9_OutOfRangeIsFatal ==
    [][ (WritePixelStep /\ last'.x + last'.y * 240 >= 240 * 135) =>
            (panicked' /\ framebuffer' = framebuffer) ]_vars

(***************************************************************************)
(* The cause of a failed init.                                             *)
(***************************************************************************)
\* an init that has returned reports the reset line exactly when the reset
\* line failed, then with nothing sent to the bus, and reports the bus exactly
\* when the last call made is the bus call that failed
CauseReported(pc, ret, t) ==
    pc = "done" =>
        /\ (rst /\ pinFailAt # 0) => ret = Err("Pin")
        /\ ret.tag = "Err" =>
              /\ ret.kind \in {"Pin", "DisplayError"}
              /\ ret.kind = "Pin" =>
                    /\ rst /\ pinFailAt # 0
                    /\ BusCalls(t) = << >>
                    /\ IsPinCall(Last(t))
              /\ ret.kind = "DisplayError" =>
                    /\ ~(rst /\ pinFailAt # 0)
                    /\ BusFails(t)
                    /\ IsBusCall(Last(t))

\* C11: a failed init reports its cause: a reset line that fails during the
\* hard reset gives the reset-line error with no command sent to the bus, a
\* failed command write gives the bus error, and neither is reported for the
\* other
C11_CauseReported ==
    /\ CauseReported(s_pc, s_ret, s_trace)
    /\ CauseReported(f_pc, f_ret, f_trace)

C11_Witness ==
    /\ rst /\ pinFailAt = 2 /\ failAt = 1
    /\ s_pc = "done" /\ s_ret = Err("Pin")
    /\ f_pc = "done" /\ f_ret = Err("Pin")
    /\ Len(PinCalls(s_trace)) = 2 /\ Len(PinCalls(f_trace)) = 2

(***************************************************************************)
(* The delays of init.                                                     *)
(***************************************************************************)
\* the calls of t with the command parameters left out
Timeline(t) ==
    [i \in 1 .. Len(t) |-> IF t[i].k = "cmd" THEN Cmd(t[i].op, << >>) ELSE t[i]]

\* the calls of t made after the reset step
AfterReset(t) ==
    LET p == IF rst THEN FirstPos(t, IsSetHigh) ELSE FirstPos(t, IsSoftReset)
    IN SubSeq(Timeline(t), p + 1, Len(t))

InitTimeline ==
    << Delay(150000),
       Cmd("ExitSleepMode", << >>), Delay(10000),
       Cmd("SetScrollArea", << >>), Cmd("SetAddressMode", << >>),
       Cmd("SetInvertMode", << >>), Cmd("SetPixelFormat", << >>), Delay(10000),
       Cmd("EnterNormalMode", << >>), Delay(10000),
       Cmd("SetDisplayOn", << >>), Delay(120000) >>

DelaysOk(pc, ret, t, outstanding) ==
    ret.tag = "Ok" =>
        /\ pc = "done"
        /\ outstanding = 0
        /\ IF rst THEN FirstPos(t, IsSetHigh) # 0 ELSE FirstPos(t, IsSoftReset) = 1
        /\ AfterReset(t) = InitTimeline
        /\ Last(t) = Delay(120000)

\* C12: a successful init has waited 150000 us between the reset step and
\* ExitSleepMode, 10000 us after ExitSleepMode, not at all between
\* SetScrollArea, SetAddressMode, SetInvertMode and SetPixelFormat, 10000 us
\* after SetPixelFormat, 10000 us after EnterNormalMode and 120000 us after
\* SetDisplayOn, and it has not returned Ok before that last delay was over
C12_InitDelays ==
    /\ DelaysOk(s_pc, s_ret, s_trace, 0)
    /\ DelaysOk(f_pc, f_ret, f_trace, f_outstanding)

C12_Witness ==
    /\ rst
    /\ s_pc = "done" /\ s_ret.tag = "Ok" /\ Len(s_trace) = 15
    /\ f_pc = "done" /\ f_ret.tag = "Ok" /\ Len(f_trace) = 15
    /\ Last(f_trace) = Delay(120000)

(***************************************************************************)
(* The two inits against each other.                                       *)
(***************************************************************************)
IsPrefix(a, b) == Len(a) <= Len(b) /\ a = SubSeq(b, 1, Len(a))

\* C13: run with the same options, the same reset line and the same failure
\* point, ST7789Framebuffer::init makes the calls ST7789::init has made, with
\* the same parameters and delay durations in the same order, and returns
\* what it returned
C13_SameTrace ==
    s_pc = "done" =>
        /\ IsPrefix(f_trace, s_trace)
        /\ (f_pc = "done" /\ f_outstanding = 0) =>
              (f_trace = s_trace /\ f_ret = s_ret)

C13_Witness ==
    /\ ~rst /\ failAt = 5
    /\ options.framebuffer_size = << 240, 135 >>
    /\ options.orientation = Orientation(FALSE, TRUE, FALSE)
    /\ s_pc = "done" /\ s_ret = Err("DisplayError")
    /\ f_pc = "done" /\ f_ret = Err("DisplayError")
    /\ Len(s_trace) = 7 /\ f_trace = s_trace

(***************************************************************************)
(* What reaches the bus from the framebuffer model.                        *)
(***************************************************************************)
WriteMemoryStart == Cmd("WriteMemoryStart", << >>)

\* a call of clear or of write_pixel
MutatingStep == nops' = nops + 1 /\ f_pc' = f_pc

\* C14: clear and write_pixel make no bus call, so what the panel has been
\* sent stays as it is until flush; only a step of flush adds to the bus
\* trace, first one WriteMemoryStart and directly after it the whole current
\* framebuffer as one payload
C14_OnlyFlushSends ==
    [][ /\ MutatingStep =>
              (f_trace' = f_trace /\ f_outstanding' = f_outstanding)
        /\ f_trace' # f_trace =>
              /\ \/ /\ f_pc \in {"idle", "done"} /\ f_pc' = "flush_send_data"
                    /\ f_trace' = Append(f_trace, WriteMemoryStart)
                 \/ /\ f_pc = "flush_send_data" /\ f_pc' = "flush_return"
                    /\ Last(f_trace) = WriteMemoryStart
                    /\ f_trace' = Append(f_trace, FlushData(framebuffer))
                    /\ WireLen(Last(f_trace')) = 2 * FbLen ]_vars

C14_Witness ==
    /\ last.op = "write_pixel" /\ last.x = 239 /\ last.y = 134
    /\ Slot(framebuffer, FbLen - 1) = 4660
    /\ f_pc = "done" /\ f_ret = OkUnit
    /\ Len(f_trace) = 2
    /\ f_trace[1] = WriteMemoryStart
    /\ f_trace[2] = FlushData(framebuffer)

(***************************************************************************)
(* The scroll area sent by init.                                           *)
(***************************************************************************)
ScrollAreaSent(t) == SelectSeq(t, LAMBDA e : e.k = "cmd" /\ e.op = "SetScrollArea")

ScrollAreaIs(t, height) ==
    \A i \in 1 .. Len(ScrollAreaSent(t)) :
       ScrollAreaSent(t)[i].arg = << 0, height, 0 >>

\* C15: the SetScrollArea command of init carries the native height of the
\* panel of the model, 320 from ST7789 and 135 from ST7789Framebuffer,
\* whatever sizes the options hold
C15_ScrollAreaNativeHeight ==
    /\ ScrollAreaIs(s_trace, 320)
    /\ ScrollAreaIs(f_trace, 135)

(***************************************************************************)
(* ST7789Framebuffer::init under cooperative scheduling.                   *)
(***************************************************************************)
\* C16: however the steps of other tasks and the completions of the awaited
\* calls interleave, ST7789Framebuffer::init issues a call only when the call
\* before has completed, so that at most one of its calls is outstanding,
\* other tasks add no call, and its calls are those of the uninterrupted
\* (blocking) run in the same order
C16_OneOutstanding ==
    [][ /\ f_outstanding' \in {0, 1}
        /\ f_trace' # f_trace =>
              /\ f_outstanding = 0
              /\ f_trace' = Append(f_trace, Last(f_trace'))
              /\ f_outstanding' = IF IsPinCall(Last(f_trace')) THEN 0 ELSE 1
              /\ others' = others
        /\ others' # others =>
              /\ f_outstanding = 1
              /\ f_trace' = f_trace /\ f_pc' = f_pc /\ f_ret' = f_ret
        /\ IsPrefix(f_trace', s_trace') ]_vars

C16_Witness ==
    /\ others = MaxOthers
    /\ f_pc = "done" /\ f_ret.tag = "Ok" /\ f_outstanding = 0
    /\ rst
    /\ f_trace = s_trace /\ Len(f_trace) = 15

(***************************************************************************)
(* write_pixels and flush on a bus that fails: the framebuffer model is     *)
(* used, and once a flush has returned ST7789::write_pixels is called.     *)
(***************************************************************************)
InitFrames ==
    /\ Quiet
    /\ options = ST7789Framebuffer_default_options
    /\ options_src = "ST7789Framebuffer::default_options"
    /\ rst = FALSE
    /\ failAt \in 0 .. 4
    /\ pinFailAt = 0
    /\ framebuffer = Filled(FbLen, 0)
    /\ overflow_checks \in BOOLEAN
    /\ in_place \in BOOLEAN

\* the last framebuffer-model call was a flush, and it has returned
Flushed == f_pc = "done" /\ F_running /\ flushes # << >>

NextFrames ==
    \/ (s_pc = "idle" /\ NextFb)
    \/ (Flushed /\ NextPixels)

SpecFrames == InitFrames /\ [][NextFrames]_vars

\* every payload in t comes directly after a WriteMemoryStart that did not fail
DataAfterStart(t) ==
    \A i \in 1 .. Len(t) :
       t[i].k = "data" =>
          /\ i > 1
          /\ t[i - 1] = WriteMemoryStart
          /\ ~BusFails(SubSeq(t, 1, i - 1))

\* C17: when WriteMemoryStart fails, write_pixels and flush return an error
\* and send no payload; a payload comes only directly after a WriteMemoryStart
\* of the same call that succeeded; when a flush returns an error the
\* framebuffer is as the call found it
C17_NoDataAfterFailedStart ==
    [][ /\ DataAfterStart(s_trace') /\ DataAfterStart(f_trace')
        /\ (s_trace' # s_trace /\ BusFails(s_trace')) =>
              (s_pc' = "done" /\ s_ret' = Err("DisplayError"))
        /\ (f_outstanding = 1 /\ f_outstanding' = 0 /\ BusFails(f_trace)) =>
              /\ f_pc' = "done" /\ f_ret' = Err("DisplayError")
              /\ f_trace' = f_trace
              /\ framebuffer' = flushes[Len(flushes)].read ]_vars

(***************************************************************************)
(* write_pixel and the panel.                                              *)
(***************************************************************************)
\* C18: a write_pixel(x, y, c) that returns Ok had x < 240 and y < 135, and a
\* call with a coordinate outside the panel leaves every slot as it was; in
\* particular write_pixel(240, 0, c) does not write the slot of pixel (0, 1)
C18_WritePixelInPanel ==
    [][ (WritePixelStep /\ ~(last'.x < 240 /\ last'.y < 135)) =>
            (panicked' /\ f_ret' = f_ret /\ framebuffer' = framebuffer) ]_vars

(***************************************************************************)
(* The framebuffer model with its init: ST7789::init is run to its return, *)
(* then ST7789Framebuffer is initialised and used on a bus that fails.     *)
(***************************************************************************)
InitModel ==
    /\ Quiet
    /\ options = ST7789Framebuffer_default_options
    /\ options_src = "ST7789Framebuffer::default_options"
    /\ rst \in BOOLEAN
    /\ failAt \in 0 .. 12
    /\ pinFailAt = 0
    /\ framebuffer = Filled(FbLen, 0)
    /\ overflow_checks = FALSE
    /\ in_place \in BOOLEAN

NextModel ==
    \/ ST7789_init
    \/ ST7789Framebuffer_init
    \/ (s_pc = "done" /\ NextFb)

SpecModel == InitModel /\ [][NextModel]_vars

\* C19: init and flush leave the framebuffer as it is: the flush calls made
\* with no clear and no write_pixel between them, failed or not, with or
\* without an init between them, found the same framebuffer, and those that
\* returned Ok sent the same payload
C19_FlushReadsSame ==
    \A i, j \in 1 .. Len(flushes) :
       /\ flushes[i].read = flushes[j].read
       /\ (i = Len(flushes) /\ f_pc \in {"idle", "done"}) =>
              framebuffer = flushes[i].read
       /\ (flushes[i].ok /\ flushes[j].ok) =>
              /\ flushes[i].sent = << FlushData(flushes[i].read) >>
              /\ flushes[i].sent = flushes[j].sent

====
